---- MODULE Spec2Model ----
(***************************************************************************)
(* Model of src/src/tuning.cpp: the MTS-ESP frequency sampler, the scale   *)
(* size / period inference and the extension of the 128-entry frequency    *)
(* table to a requested length.                                            *)
(*                                                                         *)
(* A double is modelled as an exact decimal fixed-point number with seven  *)
(* fractional digits: the pair <<h, e>> stands for h + e * 1e-7 Hz with    *)
(* 0 <= e < Unit, so that equal values are equal pairs.  The rounding of   *)
(* IEEE-754 products, NaN and infinities are outside the model.            *)
(***************************************************************************)
EXTENDS Integers, Sequences, FiniteSets, TLC

VARIABLES pc, length, source, frequency, client, idx, scaleSize, period

vars == <<pc, length, source, frequency, client, idx, scaleSize, period>>

(***************************************************************************)
(* Program constants.                                                      *)
(***************************************************************************)
Unit == 10000000        \* number of 1e-7 steps in 1 Hz (resolution of a modelled double)
NumNotes == 128         \* size of the MTS-ESP table
LastNote == 127         \* last index filled by the sampler
LastBase == 126         \* upper limit of the i and j loops
MinPeriod == 2
MaxPeriod == 100
FloorHz == 10           \* 10.0: bases at or below it are skipped
TolUnits == 10          \* 1e-6 expressed in 1e-7 steps

(***************************************************************************)
(* Bounds of the explored inputs.                                          *)
(***************************************************************************)
MaxExtra == 30          \* longest requested table is NumNotes + MaxExtra
MaxShort == 2           \* shortest requested table is NumNotes - MaxShort

(***************************************************************************)
(* double arithmetic                                                       *)
(***************************************************************************)
Norm(h, e) == <<h + (e \div Unit), e % Unit>>
Zero == <<0, 0>>
Hz(n) == <<n, 0>>
Tol == <<0, TolUnits>>
Add(x, y) == Norm(x[1] + y[1], x[2] + y[2])
Sub(x, y) == Norm(x[1] - y[1], x[2] - y[2])
Mul(p, x) == Norm(p * x[1], p * x[2])
Less(x, y) == x[1] < y[1] \/ (x[1] = y[1] /\ x[2] < y[2])
Fabs(x) == IF x[1] < 0 THEN Norm(-x[1], -x[2]) ELSE x

(***************************************************************************)
(* inferScaleSize.  The three nested for-loops leave through "goto end" at *)
(* the first acceptance met in loop order.  Each loop is written as a scan *)
(* of its index range lo..hi that visits the indices in increasing order   *)
(* (left half first) and stops at the first acceptance; a scan yields      *)
(* <<TRUE, scaleSize, period>> when the goto was taken and                 *)
(* <<FALSE, 0, period>> when the range was exhausted.                      *)
(***************************************************************************)
NoJump(p) == <<FALSE, 0, p>>

\* variant of Accept: the comparisons use <= 1e-6
Accept_inclusive(f, p, target, i, j) ==
    /\ ~Less(Tol, Fabs(Sub(f[j], target)))
    /\ ~Less(Tol, Fabs(Sub(f[j + 1], Mul(p, f[i + 1]))))

\* variant of Accept: only the first point is compared
Accept_firstPointOnly(f, p, target, i, j) ==
    Less(Fabs(Sub(f[j], target)), Tol)

\* the condition of the innermost if: both points are related by the period
Accept(f, p, target, i, j) ==
    /\ Less(Fabs(Sub(f[j], target)), Tol)
    /\ Less(Fabs(Sub(f[j + 1], Mul(p, f[i + 1]))), Tol)

\* variant of ScanJ: the loop runs on after an acceptance, so the last one wins
RECURSIVE ScanJ_lastMatch(_, _, _, _, _, _)
ScanJ_lastMatch(f, p, target, i, lo, hi) ==
    IF lo > hi THEN NoJump(p)
    ELSE IF lo = hi
         THEN IF Accept(f, p, target, i, lo) THEN <<TRUE, lo - i, p>> ELSE NoJump(p)
         ELSE LET mid == (lo + hi) \div 2
                  r == ScanJ_lastMatch(f, p, target, i, mid + 1, hi)
              IN  IF r[1] THEN r ELSE ScanJ_lastMatch(f, p, target, i, lo, mid)

\* for (j = lo; j <= hi; j++) if (...) { scaleSize = j - i; goto end; }
RECURSIVE ScanJ(_, _, _, _, _, _)
ScanJ(f, p, target, i, lo, hi) ==
    IF lo > hi THEN NoJump(p)
    ELSE IF lo = hi
         THEN IF Accept(f, p, target, i, lo) THEN <<TRUE, lo - i, p>> ELSE NoJump(p)
         ELSE LET mid == (lo + hi) \div 2
                  r == ScanJ(f, p, target, i, lo, mid)
              IN  IF r[1] THEN r ELSE ScanJ(f, p, target, i, mid + 1, hi)

\* variant of BaseStep: the j loop stops one index early (j < 126)
BaseStep_shortJ(f, p, i) ==
    IF Less(Hz(FloorHz), f[i])
    THEN ScanJ(f, p, Mul(p, f[i]), i, i, LastBase - 1)
    ELSE NoJump(p)

\* the body of the i loop: the 10.0 floor, target, and the j loop from j = i
BaseStep(f, p, i) ==
    IF Less(Hz(FloorHz), f[i])
    THEN ScanJ(f, p, Mul(p, f[i]), i, i, LastBase)
    ELSE NoJump(p)

\* for (i = lo; i <= hi; i++) ...
RECURSIVE ScanI(_, _, _, _)
ScanI(f, p, lo, hi) ==
    IF lo = hi
    THEN BaseStep(f, p, lo)
    ELSE LET mid == (lo + hi) \div 2
             r == ScanI(f, p, lo, mid)
         IN  IF r[1] THEN r ELSE ScanI(f, p, mid + 1, hi)

\* for (period = lo; period <= hi; period++) ...
RECURSIVE ScanPeriod(_, _, _)
ScanPeriod(f, lo, hi) ==
    IF lo = hi
    THEN ScanI(f, lo, 0, LastBase)
    ELSE LET mid == (lo + hi) \div 2
             r == ScanPeriod(f, lo, mid)
         IN  IF r[1] THEN r ELSE ScanPeriod(f, mid + 1, hi)

\* <<scaleSize, period>> on arrival at the label "end"
SearchEnd(f) ==
    LET r == ScanPeriod(f, MinPeriod, MaxPeriod)
    IN  IF r[1] THEN <<r[2], r[3]>> ELSE <<0, MaxPeriod + 1>>

\* variant of inferScaleSize: the "not found" case is not rewritten to -1, -1
inferScaleSize_noSentinel(f) == SearchEnd(f)

\* <<*scaleSizeRet, *periodRet>>
inferScaleSize(f) ==
    LET e == SearchEnd(f)
    IN  IF e[1] = 0 THEN <<-1, -1>> ELSE e

(***************************************************************************)
(* extendFrequencies: the value stored at index i of the extension loops.  *)
(***************************************************************************)
\* variant of ReadIndex: the periodic loop looks one period ahead, and the
\* flat loop reads the entry after the last sampled one
ReadIndex_ahead(s, i) == IF s > 0 THEN i + s ELSE LastNote + 1

\* the index read when the entry i is written: i - scaleSize in the periodic
\* loop, 127 in the flat loop
ReadIndex(s, i) == IF s > 0 THEN i - s ELSE LastNote

\* the largest index inferScaleSize reads: frequency[j + 1] and
\* frequency[i + 1] with i and j at the end of their loops
InferLastRead == LastBase + 1

\* variant of ExtendValue: every period is derived from the last sampled one
ExtendValue_onePeriod(f, s, p, i) ==
    IF s > 0 THEN Mul(p, f[NumNotes - s + ((i - NumNotes) % s)]) ELSE f[LastNote]

\* variant of ExtendValue: no else branch, the buffer keeps what it held
ExtendValue_noFlat(f, s, p, i) ==
    IF s > 0 THEN Mul(p, f[i - s]) ELSE f[i]

ExtendValue(f, s, p, i) ==
    IF s > 0 THEN Mul(p, f[ReadIndex(s, i)]) ELSE f[ReadIndex(s, i)]

(***************************************************************************)
(* The tuning tables the MTS-ESP source may hold (the inputs explored).    *)
(***************************************************************************)
Notes == 0..LastNote

RECURSIVE IterMul(_, _, _)
IterMul(p, n, x) == IF n = 0 THEN x ELSE IterMul(p, n - 1, Mul(p, x))

\* one period of s notes rising from base in equal steps
Lin(s, base, step) == [r \in 0..(s - 1) |-> Norm(base[1] + r * step[1], base[2] + r * step[2])]

\* the pattern pat of s notes repeated at the ratio p
Periodic(s, p, pat) == [k \in Notes |-> IterMul(p, k \div s, pat[k % s])]

\* every note moved by d steps of 1e-7 Hz
Shift(t, d) == [k \in Notes |-> Add(t[k], <<0, d>>)]

\* every even note moved by d steps of 1e-7 Hz
ShiftEven(t, d) == [k \in Notes |-> IF k % 2 = 0 THEN Add(t[k], <<0, d>>) ELSE t[k]]

\* the note m moved by x
Bump(t, m, x) == [t EXCEPT ![m] = Add(@, x)]

TET12 == Periodic(12, 2, Lin(12, <<8, 1757989>>, <<0, 6800000>>))
TET19 == Periodic(19, 2, Lin(19, <<29, 3129239>>, <<1, 5000000>>))
BohlenPierce == Periodic(13, 3, Lin(13, <<8, 0>>, <<1, 2000000>>))
\* twelve equal notes per octave: many (i, j) are accepted for one period
Staircase == Periodic(12, 2, Lin(12, <<11, 0>>, <<0, 0>>))
\* octave-repeating tables of very low pitch
Tiny12 == Periodic(12, 2, Lin(12, <<0, 10000>>, <<0, 500>>))
Low12A == Periodic(12, 2, Lin(12, <<0, 135000>>, <<0, 10000>>))
Low12B == Periodic(12, 2, Lin(12, <<0, 145000>>, <<0, 10000>>))
Quiet12 == Periodic(12, 2, Lin(12, <<0, 185000>>, <<0, 10000>>))
\* octave-repeating and strictly increasing, with notes 1e-7 and 2e-7 Hz apart
NearDup12 ==
    Periodic(12, 2, [r \in 0..11 |-> IF r = 0 THEN <<20, 0>>
                                     ELSE IF r = 1 THEN <<20, 1>>
                                     ELSE IF r = 11 THEN <<39, 9999998>>
                                     ELSE <<20 + r, 0>>])
\* an unconfigured or implausible source
Silent == [k \in Notes |-> Zero]
Negative == [k \in Notes |-> Hz(-k)]
Anomalous == [TET12 EXCEPT ![0] = Zero, ![1] = Hz(-1)]

Deviations == {1, 9, 10, 100, -1, -10}

Sources ==
    {TET12, TET19, BohlenPierce, Staircase, Tiny12, Low12A, Low12B, Quiet12,
     NearDup12, Silent, Negative, Anomalous}
    \cup {Shift(Quiet12, d) : d \in Deviations}
    \cup {ShiftEven(Quiet12, d) : d \in Deviations}
    \cup {Bump(TET12, 15, <<0, 10>>), Bump(TET12, 16, <<0, 100>>), Bump(TET12, 60, Hz(1))}

Lengths == ((NumNotes - MaxShort)..(NumNotes + 1)) \cup {NumNotes + MaxExtra}

(***************************************************************************)
(* State.  pc is the position of the single thread of control:             *)
(*   "call"     getFrequencies entered, before its assert                  *)
(*   "register" getMTSESPFrequencies entered                               *)
(*   "query"    in the sampling loop, about to test i <= 127               *)
(*   "infer"    extendFrequencies entered                                  *)
(*   "extend"   in an extension loop, about to test i < length             *)
(*   "done"     getFrequencies returned                                    *)
(*   "abort"    an assert failed                                           *)
(*   "unwound"  an exception left getMTSESPFrequencies                     *)
(* frequency is the caller's buffer of length entries, idx the running     *)
(* loop index, client the state of the MTS-ESP registration.               *)
(***************************************************************************)
Init ==
    /\ pc = "call"
    /\ length \in Lengths
    /\ source \in Sources
    /\ frequency = [k \in 0..(length - 1) |-> Zero]
    /\ client = "none"
    /\ idx = 0
    /\ scaleSize = 0
    /\ period = 0

\* variant of getFrequencies_assert: the assertion is compiled out
getFrequencies_assert_off ==
    /\ pc = "call"
    /\ pc' = "register"
    /\ UNCHANGED <<length, source, frequency, client, idx, scaleSize, period>>

\* assert(length >= 128)
getFrequencies_assert ==
    /\ pc = "call"
    /\ pc' = IF length >= NumNotes THEN "register" ELSE "abort"
    /\ UNCHANGED <<length, source, frequency, client, idx, scaleSize, period>>

\* MTSClient *client = MTS_RegisterClient(); i = 0
MTS_RegisterClient ==
    /\ pc = "register"
    /\ client' = "registered"
    /\ idx' = 0
    /\ pc' = "query"
    /\ UNCHANGED <<length, source, frequency, scaleSize, period>>

\* frequency[i] = MTS_NoteToFrequency(client, i, 0); i++
MTS_NoteToFrequency ==
    /\ pc = "query"
    /\ idx <= LastNote
    /\ frequency' = [frequency EXCEPT ![idx] = source[idx]]
    /\ idx' = idx + 1
    /\ UNCHANGED <<pc, length, source, client, scaleSize, period>>

\* the query raises instead of returning: nothing in getMTSESPFrequencies or
\* getFrequencies catches it, and the stack unwinds past MTS_DeregisterClient
MTS_NoteToFrequency_raises ==
    /\ pc = "query"
    /\ idx <= LastNote
    /\ pc' = "unwound"
    /\ UNCHANGED <<length, source, frequency, client, idx, scaleSize, period>>

\* loop exit; MTS_DeregisterClient(client); return to getFrequencies
MTS_DeregisterClient ==
    /\ pc = "query"
    /\ idx > LastNote
    /\ client' = "deregistered"
    /\ pc' = "infer"
    /\ UNCHANGED <<length, source, frequency, idx, scaleSize, period>>

\* inferScaleSize(frequency, &scaleSize, &period); assert(scaleSize <= 128); i = 128
extendFrequencies_infer ==
    /\ pc = "infer"
    /\ LET r == inferScaleSize(frequency)
       IN  /\ scaleSize' = r[1]
           /\ period' = r[2]
           /\ pc' = IF r[1] <= NumNotes THEN "extend" ELSE "abort"
    /\ idx' = NumNotes
    /\ UNCHANGED <<length, source, frequency, client>>

\* variant of extendFrequencies_step: the store goes to i - 128
extendFrequencies_step_low ==
    /\ pc = "extend"
    /\ idx < length
    /\ frequency' = [frequency EXCEPT ![idx - NumNotes] = ExtendValue(frequency, scaleSize, period, idx)]
    /\ idx' = idx + 1
    /\ UNCHANGED <<pc, length, source, client, scaleSize, period>>

\* one iteration of either extension loop
extendFrequencies_step ==
    /\ pc = "extend"
    /\ idx < length
    /\ frequency' = [frequency EXCEPT ![idx] = ExtendValue(frequency, scaleSize, period, idx)]
    /\ idx' = idx + 1
    /\ UNCHANGED <<pc, length, source, client, scaleSize, period>>

\* loop exit and return from extendFrequencies and getFrequencies
extendFrequencies_return ==
    /\ pc = "extend"
    /\ idx >= length
    /\ pc' = "done"
    /\ UNCHANGED <<length, source, frequency, client, idx, scaleSize, period>>

Next ==
    \/ getFrequencies_assert
    \/ MTS_RegisterClient
    \/ MTS_NoteToFrequency
    \/ MTS_NoteToFrequency_raises
    \/ MTS_DeregisterClient
    \/ extendFrequencies_infer
    \/ extendFrequencies_step
    \/ extendFrequencies_return

Spec == Init /\ [][Next]_vars

(***************************************************************************)
(* Vocabulary of the properties.  The deviation of a candidate is computed *)
(* here directly on the integers, independently of Sub, Fabs and Less.     *)
(***************************************************************************)
Periods == MinPeriod..MaxPeriod
Bases == 0..LastBase

\* pc = "extend" with idx = NumNotes: inferScaleSize has just returned
Inferred == pc = "extend" /\ idx = NumNotes
Extending == pc \in {"extend", "done"}

Above10(x) == x[1] > FloorHz \/ (x[1] = FloorHz /\ x[2] > 0)

\* |x - p * y| in steps of 1e-7 Hz, capped at Unit (1 Hz) when larger
Dev(x, p, y) ==
    LET dh == x[1] - p * y[1]
        de == x[2] - p * y[2]
    IN  IF dh > MaxPeriod \/ dh < -MaxPeriod
        THEN Unit
        ELSE LET v == dh * Unit + de
                 a == IF v < 0 THEN -v ELSE v
             IN  IF a > Unit THEN Unit ELSE a

\* the acceptance test of the triple (p, i, j) on the table f
Acc(f, p, i, j) ==
    /\ Above10(f[i])
    /\ Dev(f[j], p, f[i]) < TolUnits
    /\ Dev(f[j + 1], p, f[i + 1]) < TolUnits

\* (q, a, b) comes before (p, i, j) in the order period, base, match
Before(q, a, b, p, i, j) ==
    q < p \/ (q = p /\ a < i) \/ (q = p /\ a = i /\ b < j)

\* C1: inferScaleSize returns the first acceptance in search order: when some
\* triple (p, i, j) with 2 <= p <= 100, 0 <= i <= j <= 126 passes the acceptance
\* test, the result is (j - i, p) for the smallest such triple in the order
\* p, then i, then j; when none passes, the result is (-1, -1).
C1_FirstAcceptance ==
    Inferred =>
        LET f == frequency
        IN  IF \E p \in Periods, i \in Bases : \E j \in i..LastBase : Acc(f, p, i, j)
            THEN \E p \in Periods, i \in Bases : \E j \in i..LastBase :
                    /\ Acc(f, p, i, j)
                    /\ \A q \in MinPeriod..p, a \in Bases : \A b \in a..LastBase :
                          Acc(f, q, a, b) => ~Before(q, a, b, p, i, j)
                    /\ scaleSize = j - i
                    /\ period = p
            ELSE scaleSize = -1 /\ period = -1

\* a table on which the order matters: base 10 with match 12 would give scale
\* size 2, but base 0 with match 12 comes first
C1_Witness ==
    /\ Inferred
    /\ scaleSize = 12
    /\ Acc(frequency, 2, 10, 12)
    /\ Acc(frequency, 2, 0, 12)
    /\ Acc(frequency, 2, 0, 13)

\* C2: when inference found (scaleSize, period), every extended index k obeys
\* frequency[k] = period * frequency[k - scaleSize] exactly, also where the
\* source entry k - scaleSize is itself an extended one.
C2_Recurrence ==
    (Extending /\ scaleSize > 0) =>
        \A k \in NumNotes..(idx - 1) : frequency[k] = Mul(period, frequency[k - scaleSize])

C2_Witness ==
    /\ pc = "done"
    /\ scaleSize > 0
    /\ length - 1 - scaleSize >= NumNotes
    /\ frequency[length - 1] # Zero

\* C3: when inference found nothing, the extension runs to its end without a
\* failed assertion and every extended index holds frequency[127].
C3_FlatContinuation ==
    (scaleSize = -1) =>
        /\ Extending
        /\ period = -1
        /\ \A k \in NumNotes..(idx - 1) : frequency[k] = frequency[LastNote]

C3_Witness ==
    /\ pc = "done"
    /\ scaleSize = -1
    /\ length > NumNotes + 1
    /\ frequency[LastNote] # Zero
    /\ frequency[length - 1] = frequency[LastNote]

\* a step of extendFrequencies changes no entry other than 128..length-1
SamplesKept ==
    pc \in {"infer", "extend"} =>
        /\ DOMAIN frequency' = DOMAIN frequency
        /\ \A k \in DOMAIN frequency :
              frequency'[k] # frequency[k] => (k >= NumNotes /\ k < length)

\* C4: the extension never changes an entry 0..127; the only entries it writes
\* are 128..length-1, on the periodic and on the flat path.
C4_SamplesUnchanged ==
    [][SamplesKept]_vars

\* a table with a zero and a negative entry went through the periodic path
C4_Witness ==
    /\ pc = "done"
    /\ length > NumNotes
    /\ scaleSize > 0
    /\ frequency[0] = Zero
    /\ Less(frequency[1], Zero)
    /\ frequency[NumNotes] # Zero

\* C5: the result of inferScaleSize is (-1, -1) or a pair with
\* 1 <= scaleSize <= 128 and 2 <= period <= 100, and assert(scaleSize <= 128)
\* never fails.
C5_ResultRange ==
    (length >= NumNotes /\ pc \in {"extend", "done", "abort"}) =>
        /\ pc # "abort"
        /\ \/ scaleSize = -1 /\ period = -1
           \/ /\ scaleSize >= 1 /\ scaleSize <= NumNotes
              /\ period >= MinPeriod /\ period <= MaxPeriod

C5_Witness ==
    /\ Inferred
    /\ scaleSize = 13
    /\ period = 3

\* strictly increasing, frequency[k + 12] = 2 * frequency[k] for k in 0..115,
\* positive base frequency
Is12TET(f) ==
    /\ Less(Zero, f[0])
    /\ \A k \in Bases : Less(f[k], f[k + 1])
    /\ \A k \in 0..115 : f[k + 12] = Mul(2, f[k])

\* C6 as stated: every table that is octave-periodic with scale size 12 in the
\* above sense, whatever its positive base frequency, infers (12, 2).
C6_Any12TET ==
    (Inferred /\ Is12TET(frequency)) => (scaleSize = 12 /\ period = 2)

\* C6: a table that is octave-periodic with scale size 12 in the above sense,
\* whose entry 114 is above 10.0 Hz and whose consecutive entries are at least
\* 1e-6 Hz apart, infers (12, 2).
C6_Audible12TET ==
    (/\ Inferred
     /\ Is12TET(frequency)
     /\ Above10(frequency[114])
     /\ \A k \in Bases : ~Less(Sub(frequency[k + 1], frequency[k]), Tol))
    => (scaleSize = 12 /\ period = 2)

\* the boundary case: entry 114 is the first one above 10.0 Hz
C6_Witness ==
    /\ Inferred
    /\ Is12TET(frequency)
    /\ Above10(frequency[114])
    /\ ~Above10(frequency[113])
    /\ scaleSize = 12
    /\ period = 2

\* C7: the registration opened by getMTSESPFrequencies is released on every
\* path that leaves it: once control is outside the sampler, a client that was
\* registered has been deregistered.
C7_ReleasedOnEveryExit ==
    (client # "none" /\ pc # "query") => client = "deregistered"

\* C8: with length < 128 getFrequencies goes from its entry to the abort state
\* and nowhere else: no client is registered and no entry of the buffer is
\* written.
C8_ShortLengthAborts ==
    (length < NumNotes) =>
        /\ pc \in {"call", "abort"}
        /\ client = "none"
        /\ frequency = [k \in 0..(length - 1) |-> Zero]

C8_Witness ==
    /\ pc = "abort"
    /\ length < NumNotes
    /\ client = "none"

\* C9: the tolerance is strict and applies to both points: when every candidate
\* (p, i, j) with frequency[i] > 10.0 misses at one of its two points by 1e-6 or
\* more, the result is (-1, -1); when some candidate has both differences of
\* magnitude 1e-7, the table is classified as periodic.  Both halves are
\* written by contraposition, the result first: a table reported periodic has
\* a candidate strictly within 1e-6 at both points, and a table not reported
\* periodic has no candidate with both differences of magnitude 1e-7.
C9_StrictTolerance ==
    Inferred =>
        LET f == frequency
        IN  /\ ~(scaleSize = -1 /\ period = -1) =>
                  \E p \in Periods, i \in Bases : \E j \in i..LastBase :
                      /\ Above10(f[i])
                      /\ Dev(f[j], p, f[i]) < TolUnits
                      /\ Dev(f[j + 1], p, f[i + 1]) < TolUnits
            /\ ~(scaleSize > 0) =>
                  ~\E p \in Periods, i \in Bases : \E j \in i..LastBase :
                      /\ Above10(f[i])
                      /\ Dev(f[j], p, f[i]) = 1
                      /\ Dev(f[j + 1], p, f[i + 1]) = 1

\* a table not found although one point of a candidate matches exactly and the
\* other one misses by exactly 1e-6
C9_Witness ==
    /\ Inferred
    /\ scaleSize = -1
    /\ \E i \in Bases : \E j \in i..LastBase :
          /\ Above10(frequency[i])
          /\ Dev(frequency[j], 2, frequency[i]) = 0
          /\ Dev(frequency[j + 1], 2, frequency[i + 1]) = TolUnits

\* C10 as stated: a reported periodicity (scaleSize, period) is followed by the
\* whole table, at every k with frequency[k] > 10.0 and k + scaleSize <= 127.
C10_WholeTableConsistent ==
    (Inferred /\ scaleSize > 0) =>
        \A k \in 0..(LastNote - scaleSize) :
            Above10(frequency[k]) =>
                Dev(frequency[k + scaleSize], period, frequency[k]) < TolUnits

\* C10: a reported periodicity (scaleSize, period) is followed at two
\* consecutive points: some k with frequency[k] > 10.0 and
\* k + scaleSize <= 126 has both frequency[k + scaleSize] and
\* frequency[k + scaleSize + 1] within 1e-6 of period times frequency[k] and
\* frequency[k + 1].
C10_TwoConsecutivePoints ==
    (Inferred /\ scaleSize > 0) =>
        \E k \in 0..(LastBase - scaleSize) :
            /\ Above10(frequency[k])
            /\ Dev(frequency[k + scaleSize], period, frequency[k]) < TolUnits
            /\ Dev(frequency[k + scaleSize + 1], period, frequency[k + 1]) < TolUnits

\* a periodicity is reported for a table that leaves it by 1 Hz elsewhere
C10_Witness ==
    /\ Inferred
    /\ scaleSize > 0
    /\ \E k \in 0..(LastNote - scaleSize) :
          /\ Above10(frequency[k])
          /\ Dev(frequency[k + scaleSize], period, frequency[k]) = Unit

\* C11: while extendFrequencies runs with length >= 128, every access stays
\* inside the table and reads an entry that already has its final value:
\* inferScaleSize reads no index above 127; the step that writes index idx
\* (128 <= idx < length) reads idx - scaleSize with 0 <= idx - scaleSize < idx
\* on the periodic path and index 127 on the flat path.
C11_AccessesInBounds ==
    /\ pc = "infer" =>
          /\ InferLastRead <= LastNote
          /\ InferLastRead \in DOMAIN frequency
    /\ (pc = "extend" /\ idx < length) =>
          LET r == ReadIndex(scaleSize, idx)
          IN  /\ idx >= NumNotes
              /\ idx \in DOMAIN frequency
              /\ r >= 0
              /\ r < idx
              /\ r \in DOMAIN frequency
              /\ scaleSize > 0 => r = idx - scaleSize
              /\ ~(scaleSize > 0) => r = LastNote

\* the last entry is about to be written from an entry that was itself written
\* by the extension
C11_Witness ==
    /\ pc = "extend"
    /\ idx = length - 1
    /\ scaleSize > 0
    /\ ReadIndex(scaleSize, idx) >= NumNotes
    /\ frequency[ReadIndex(scaleSize, idx)] # Zero

====
